---- MODULE Spec2Model ----
(***************************************************************************)
(* Travel Companion frontend (gui/app.js): the preference checkboxes, the  *)
(* toasts, the location and image forms, the image preview, the results    *)
(* container and the weather modal, with every asynchronous handler split  *)
(* at its await points.                                                    *)
(***************************************************************************)
EXTENDS Integers, Sequences, FiniteSets, TLC

\* ------------------------------------------------------------------ bounds
NumBoxes == 4       \* checkboxes in each preference group
MaxToasts == 1      \* toasts on screen at once
MaxReq == 2         \* fetch handlers started in one run
NumFiles == 1       \* distinct files the user can pick
MaxReads == 1       \* FileReader reads pending at once
MaxDest == 2        \* destinations in one response
MaxCalls == 3       \* fetch handlers started in one run of the weather specification

\* --------------------------------------------------------------- constants
MaxPreferences == 3

NoFile == 0

\* An optional value: a JavaScript value that may be undefined.
Absent == <<>>
Present(v) == <<v>>
IsPresent(o) == o # <<>>
Value(o) == o[1]

Boxes == 1..NumBoxes
Files == 1..NumFiles

\* ------------------------------------------------------------------- state
VARIABLES
    preferenceCheckboxes,       \* values of the checked .preference-check boxes
    imagePreferenceCheckboxes,  \* values of the checked .image-preference-check boxes
    toasts,                     \* alert divs now in document.body, oldest first
    locationInput,              \* value of #locationInput
    files,                      \* imageInput.files[0], or NoFile
    readers,                    \* files of the FileReaders still reading
    previewSrc,                 \* previewImg.src
    imagePreviewHidden,         \* imagePreview has class d-none
    loadingSpinnerHidden,       \* loadingSpinner has class d-none
    resultsSectionHidden,       \* resultsSection has class d-none
    resultsContainer,           \* the cards in resultsContainer, in order
    weatherModalShown,          \* the weather modal is open
    weatherContent,             \* weatherContent.innerHTML
    requests,                   \* the async handlers started, in order of submission
    fetchLog,                   \* the calls of fetch made, in order
    lastCompleted               \* index of the handler that ended most recently, 0 if none

vars == <<preferenceCheckboxes, imagePreferenceCheckboxes, toasts, locationInput,
          files, readers, previewSrc, imagePreviewHidden, loadingSpinnerHidden,
          resultsSectionHidden, resultsContainer, weatherModalShown,
          weatherContent, requests, fetchLog, lastCompleted>>

prefVars == <<preferenceCheckboxes, imagePreferenceCheckboxes>>
formVars == <<locationInput, files>>
previewVars == <<readers, previewSrc, imagePreviewHidden>>
loadingVars == <<loadingSpinnerHidden, resultsSectionHidden>>
weatherVars == <<weatherModalShown, weatherContent>>
requestVars == <<requests, fetchLog, lastCompleted>>

\* ------------------------------------------------------------------ toasts
Toast(message, type) == [message |-> message, type |-> type]

showToast(ts, message, type) == Append(ts, Toast(message, type))

MaxPrefsToast == Toast("Maximum 3 preferences allowed", "warning")
EnterLocationToast == Toast("Please enter a location", "warning")
SelectImageToast == Toast("Please select an image", "warning")
SuggestionsErrorToast ==
    Toast("Error fetching travel suggestions. Please try again.", "danger")
ImageErrorToast == Toast("Error processing image. Please try again.", "danger")

\* The 3 second timer of the oldest toast fires and removes it.
ToastExpire ==
    /\ toasts # <<>>
    /\ toasts' = Tail(toasts)
    /\ UNCHANGED <<prefVars, formVars, previewVars, loadingVars,
                   resultsContainer, weatherVars, requestVars>>

\* ------------------------------------------------------------- preferences
\* Variant: the limit is off by one.
TooManyCheckedMutant(checkedCount) == checkedCount > MaxPreferences + 1

TooManyChecked(checkedCount) == checkedCount > MaxPreferences

\* The browser flips box b, then the change listener runs on the new state.
limitPreferences(checkedSet, b) ==
    LET flipped == IF b \in checkedSet THEN checkedSet \ {b} ELSE checkedSet \cup {b}
        checkedCount == Cardinality(flipped)
    IN  IF TooManyChecked(checkedCount)
        THEN [checked |-> flipped \ {b}, warned |-> TRUE]
        ELSE [checked |-> flipped, warned |-> FALSE]

TogglePreference(b) ==
    LET r == limitPreferences(preferenceCheckboxes, b)
    IN  /\ r.warned => Len(toasts) < MaxToasts
        /\ preferenceCheckboxes' = r.checked
        /\ toasts' = IF r.warned
                     THEN showToast(toasts, MaxPrefsToast.message, MaxPrefsToast.type)
                     ELSE toasts
        /\ UNCHANGED <<imagePreferenceCheckboxes, formVars, previewVars, loadingVars,
                       resultsContainer, weatherVars, requestVars>>

ToggleImagePreference(b) ==
    LET r == limitPreferences(imagePreferenceCheckboxes, b)
    IN  /\ r.warned => Len(toasts) < MaxToasts
        /\ imagePreferenceCheckboxes' = r.checked
        /\ toasts' = IF r.warned
                     THEN showToast(toasts, MaxPrefsToast.message, MaxPrefsToast.type)
                     ELSE toasts
        /\ UNCHANGED <<preferenceCheckboxes, formVars, previewVars, loadingVars,
                       resultsContainer, weatherVars, requestVars>>

\* The checked values in document order.
RECURSIVE ValuesInOrder(_, _)
ValuesInOrder(checkedSet, from) ==
    IF from > NumBoxes THEN <<>>
    ELSE (IF from \in checkedSet THEN <<from>> ELSE <<>>)
         \o ValuesInOrder(checkedSet, from + 1)

getSelectedPreferences(checkedSet) == ValuesInOrder(checkedSet, 1)

\* -------------------------------------------------------------- text input
Locations == {<<>>, <<" ", " ">>, <<" ", "K", " ">>}

\* Variant: the value is used untrimmed.
trimMutant(s) == s

RECURSIVE trimStart(_)
trimStart(s) == IF s # <<>> /\ Head(s) = " " THEN trimStart(Tail(s)) ELSE s

RECURSIVE trimEnd(_)
trimEnd(s) ==
    IF s # <<>> /\ s[Len(s)] = " " THEN trimEnd(SubSeq(s, 1, Len(s) - 1)) ELSE s

trim(s) == trimEnd(trimStart(s))

\* The user edits #locationInput.
TypeLocation(v) ==
    /\ v # locationInput
    /\ locationInput' = v
    /\ UNCHANGED <<prefVars, toasts, files, previewVars, loadingVars,
                   resultsContainer, weatherVars, requestVars>>

\* ------------------------------------------------------------ image preview
RemoveAt(s, i) == SubSeq(s, 1, i - 1) \o SubSeq(s, i + 1, Len(s))

\* The change listener of imageInput; f is the new files[0].
SelectFile(f) ==
    /\ f # files
    /\ files' = f
    /\ IF f # NoFile
       THEN /\ Len(readers) < MaxReads
            /\ readers' = Append(readers, f)
            /\ UNCHANGED <<previewSrc, imagePreviewHidden>>
       ELSE /\ imagePreviewHidden' = TRUE
            /\ UNCHANGED <<readers, previewSrc>>
    /\ UNCHANGED <<prefVars, toasts, locationInput, loadingVars,
                   resultsContainer, weatherVars, requestVars>>

\* reader.onload of the i-th pending FileReader.
ReaderLoad(i) ==
    /\ i \in 1..Len(readers)
    /\ previewSrc' = readers[i]
    /\ imagePreviewHidden' = FALSE
    /\ readers' = RemoveAt(readers, i)
    /\ UNCHANGED <<prefVars, toasts, formVars, loadingVars,
                   resultsContainer, weatherVars, requestVars>>

\* ------------------------------------------------------------ loading state
\* Variant: showLoading leaves the results section as it is.
showLoadingMutant == [spinnerHidden |-> FALSE, sectionHidden |-> resultsSectionHidden]

showLoading == [spinnerHidden |-> FALSE, sectionHidden |-> TRUE]

\* Variant: hideLoading also shows the results section again.
\* Variant: hideLoading leaves the spinner as it is.
hideLoadingKeepsSpinner(sectionHidden) ==
    [spinnerHidden |-> loadingSpinnerHidden, sectionHidden |-> sectionHidden]

hideLoadingMutant(sectionHidden) == [spinnerHidden |-> TRUE, sectionHidden |-> FALSE]

hideLoading(sectionHidden) == [spinnerHidden |-> TRUE, sectionHidden |-> sectionHidden]

\* ------------------------------------------------------------- destinations
Kyoto == [name |-> "Kyoto", description |-> "Temples", budget_level |-> "Moderate",
          best_time |-> "Spring", attractions |-> Present(<<"Fushimi Inari">>)]
Rome == [name |-> "Rome", description |-> "Ruins", budget_level |-> "Luxury",
         best_time |-> "Autumn", attractions |-> Present(<<"Colosseum", "Forum">>)]
\* A destination the backend sent without its attractions list.
Oslo == [name |-> "Oslo", description |-> "Fjords", budget_level |-> "Budget",
         best_time |-> "Summer", attractions |-> Absent]

DestinationPool == {Kyoto, Rome, Oslo}
DestinationLists == UNION {[1..n -> DestinationPool] : n \in 0..MaxDest}

badgeClass(budget_level) ==
    IF budget_level = "Moderate" THEN "bg-warning text-dark"
    ELSE IF budget_level = "Luxury" THEN "bg-danger"
    ELSE "bg-success"

\* destination.attractions.map(...) throws a TypeError on undefined.
cardThrows(destination) == ~IsPresent(destination.attractions)

createDestinationCard(destination, index) ==
    [title |-> destination.name,
     badgeClass |-> badgeClass(destination.budget_level),
     badge |-> destination.budget_level,
     text |-> destination.description,
     best_time |-> destination.best_time,
     attractionsList |-> Value(destination.attractions),
     weatherArg |-> destination.name]

\* destinations.forEach: cards are appended until one cannot be created.
RECURSIVE appendCards(_, _, _)
appendCards(container, destinations, index) ==
    IF index > Len(destinations) THEN [container |-> container, threw |-> FALSE]
    ELSE IF cardThrows(destinations[index])
         THEN [container |-> container, threw |-> TRUE]
         ELSE appendCards(Append(container, createDestinationCard(destinations[index], index)),
                          destinations, index + 1)

\* Variant: the container is not emptied first.
displaySuggestionsNoClear(destinations, sectionHidden) ==
    IF ~IsPresent(destinations)
    THEN [container |-> resultsContainer, sectionHidden |-> sectionHidden, threw |-> TRUE]
    ELSE LET r == appendCards(resultsContainer, Value(destinations), 1)
         IN  [container |-> r.container,
              sectionHidden |-> IF r.threw THEN sectionHidden ELSE FALSE,
              threw |-> r.threw]

\* Variant: cards already shown are kept instead of replaced.
displaySuggestionsOnce(destinations, sectionHidden) ==
    IF ~IsPresent(destinations)
    THEN [container |-> <<>>, sectionHidden |-> sectionHidden, threw |-> TRUE]
    ELSE LET r == appendCards(<<>>, Value(destinations), 1)
         IN  [container |-> IF resultsContainer # <<>> /\ ~r.threw
                            THEN resultsContainer ELSE r.container,
              sectionHidden |-> IF r.threw THEN sectionHidden ELSE FALSE,
              threw |-> r.threw]

\* displaySuggestions(destinations), destinations possibly undefined; sectionHidden
\* is the visibility of resultsSection at the call.
displaySuggestions(destinations, sectionHidden) ==
    IF ~IsPresent(destinations)
    THEN [container |-> <<>>, sectionHidden |-> sectionHidden, threw |-> TRUE]
    ELSE LET r == appendCards(<<>>, Value(destinations), 1)
         IN  [container |-> r.container,
              sectionHidden |-> IF r.threw THEN sectionHidden ELSE FALSE,
              threw |-> r.threw]

\* ------------------------------------------------------------------- fetch
LocationURL == "/api/suggest-by-location"
ImageURL == "/api/suggest-by-image"
WeatherURL == "/api/weather"

\* How the promise of fetch settles.
FetchResults == {"rejected", "status-4xx", "status-5xx", "status-2xx"}
\* Variant: only 5xx and rejections count as failures.
okMutant(result) == result \in {"status-2xx", "status-4xx"}

\* response.ok
ok(result) == result = "status-2xx"

\* How response.json() settles for a suggestion endpoint.
SuggestionBodies ==
    {[parse |-> "invalid", destinations |-> Absent],
     [parse |-> "null", destinations |-> Absent],
     [parse |-> "object", destinations |-> Absent]}
    \cup {[parse |-> "object", destinations |-> Present(l)] : l \in DestinationLists}

NoBody == [parse |-> "none"]

\* The body of a request that is no longer in flight.
Delivered == [sent |-> TRUE]

\* fetch(url, ...) is called: one more request has gone out.
fetch(log, url) == Append(log, url)

\* A handler suspended at its await of fetch, with the body of its request, which
\* is in flight until fetch settles, and its response, once fetch settled. hiddenBefore, outcome, changed, data
\* and toasted record its history: the visibility of resultsSection when it was
\* started, how it ended, whether it changed what its display function fills, the
\* body it displayed and the danger toasts it showed.
NewRequest(kind, destination, body) ==
    [kind |-> kind, pc |-> "fetch", destination |-> destination, body |-> body,
     response |-> "none",
     hiddenBefore |-> resultsSectionHidden,
     outcome |-> "none", changed |-> FALSE, data |-> NoBody, toasted |-> 0]

Awaiting(r, kind, pc) ==
    /\ r \in 1..Len(requests)
    /\ requests[r].kind = kind
    /\ requests[r].pc = pc

\* Variant: a failed request is sent again.
FinishMutant(r, response, outcome, changed, data, toasted) ==
    /\ requests' = [requests EXCEPT ![r] =
                        [@ EXCEPT !.pc = "done", !.body = Delivered,
                                  !.response = response,
                                  !.outcome = outcome,
                                  !.changed = changed, !.data = data,
                                  !.toasted = toasted]]
    /\ lastCompleted' = r
    /\ fetchLog' = IF outcome = "failure" /\ Len(fetchLog) <= MaxReq
                   THEN Append(fetchLog, fetchLog[r])
                   ELSE fetchLog

\* The handler r ends without another call of fetch.
Finish(r, response, outcome, changed, data, toasted) ==
    /\ requests' = [requests EXCEPT ![r] =
                        [@ EXCEPT !.pc = "done", !.body = Delivered,
                                  !.response = response,
                                  !.outcome = outcome,
                                  !.changed = changed, !.data = data,
                                  !.toasted = toasted]]
    /\ lastCompleted' = r
    /\ UNCHANGED fetchLog

\* ----------------------------------------------------------- location form
\* The catch block of a suggestion handler, entered with the given container
\* and section visibility.
SuggestionCatch(r, response, toast, container, sectionHidden) ==
    /\ Len(toasts) < MaxToasts
    /\ loadingSpinnerHidden' = hideLoading(sectionHidden).spinnerHidden
    /\ resultsSectionHidden' = hideLoading(sectionHidden).sectionHidden
    /\ resultsContainer' = container
    /\ toasts' = showToast(toasts, toast.message, toast.type)
    /\ Finish(r, response, "failure", container # resultsContainer, NoBody, 1)

\* The try block of a suggestion handler after response.json() settled with body.
SuggestionBody(r, toast, body) ==
    IF body.parse = "invalid"
    THEN SuggestionCatch(r, requests[r].response, toast, resultsContainer, resultsSectionHidden)
    ELSE LET hidden == hideLoading(resultsSectionHidden)
         IN  IF body.parse = "null"
             THEN SuggestionCatch(r, requests[r].response, toast, resultsContainer, hidden.sectionHidden)
             ELSE LET d == displaySuggestions(body.destinations, hidden.sectionHidden)
                  IN  IF d.threw
                      THEN SuggestionCatch(r, requests[r].response, toast, d.container, d.sectionHidden)
                      ELSE /\ loadingSpinnerHidden' = hidden.spinnerHidden
                           /\ resultsSectionHidden' = d.sectionHidden
                           /\ resultsContainer' = d.container
                           /\ UNCHANGED toasts
                           /\ Finish(r, requests[r].response, "success",
                                     d.container # resultsContainer, body, 0)

SubmitLocation ==
    LET location == trim(locationInput)
        preferences == getSelectedPreferences(preferenceCheckboxes)
    IN  IF location = <<>>
        THEN /\ Len(toasts) < MaxToasts
             /\ toasts' = showToast(toasts, EnterLocationToast.message,
                                    EnterLocationToast.type)
             /\ UNCHANGED <<prefVars, formVars, previewVars, loadingVars,
                            resultsContainer, weatherVars, requestVars>>
        ELSE /\ Len(requests) < MaxReq
             /\ loadingSpinnerHidden' = showLoading.spinnerHidden
             /\ resultsSectionHidden' = showLoading.sectionHidden
             /\ fetchLog' = fetch(fetchLog, LocationURL)
             /\ requests' = Append(requests,
                    NewRequest("location", "",
                               [location |-> location, preferences |-> preferences]))
             /\ UNCHANGED <<prefVars, toasts, formVars, previewVars,
                            resultsContainer, weatherVars, lastCompleted>>

LocationFetchSettled(r, result) ==
    /\ Awaiting(r, "location", "fetch")
    /\ IF result = "rejected" \/ ~ok(result)
       THEN SuggestionCatch(r, result, SuggestionsErrorToast, resultsContainer,
                            resultsSectionHidden)
       ELSE /\ requests' = [requests EXCEPT ![r] =
                                [@ EXCEPT !.pc = "json", !.body = Delivered,
                                           !.response = result]]
            /\ UNCHANGED <<toasts, loadingVars, resultsContainer, fetchLog, lastCompleted>>
    /\ UNCHANGED <<prefVars, formVars, previewVars, weatherVars>>

LocationJsonSettled(r, body) ==
    /\ Awaiting(r, "location", "json")
    /\ SuggestionBody(r, SuggestionsErrorToast, body)
    /\ UNCHANGED <<prefVars, formVars, previewVars, weatherVars>>

\* -------------------------------------------------------------- image form
RECURSIVE join(_)
join(values) ==
    IF Len(values) <= 1 THEN values
    ELSE <<Head(values), ",">> \o join(Tail(values))

\* Variant: the test of the file is lost.
NoFileSelectedMutant(file) == FALSE

\* !file
noFileSelected(file) == file = NoFile

SubmitImage ==
    LET file == files
        preferences == getSelectedPreferences(imagePreferenceCheckboxes)
    IN  IF noFileSelected(file)
        THEN /\ Len(toasts) < MaxToasts
             /\ toasts' = showToast(toasts, SelectImageToast.message,
                                    SelectImageToast.type)
             /\ UNCHANGED <<prefVars, formVars, previewVars, loadingVars,
                            resultsContainer, weatherVars, requestVars>>
        ELSE /\ Len(requests) < MaxReq
             /\ loadingSpinnerHidden' = showLoading.spinnerHidden
             /\ resultsSectionHidden' = showLoading.sectionHidden
             /\ fetchLog' = fetch(fetchLog, ImageURL)
             /\ requests' = Append(requests,
                    NewRequest("image", "",
                               [file |-> file,
                                preferences |-> IF Len(preferences) > 0
                                                THEN Present(join(preferences))
                                                ELSE Absent]))
             /\ UNCHANGED <<prefVars, toasts, formVars, previewVars,
                            resultsContainer, weatherVars, lastCompleted>>

ImageFetchSettled(r, result) ==
    /\ Awaiting(r, "image", "fetch")
    /\ IF result = "rejected" \/ ~ok(result)
       THEN SuggestionCatch(r, result, ImageErrorToast, resultsContainer,
                            resultsSectionHidden)
       ELSE /\ requests' = [requests EXCEPT ![r] =
                                [@ EXCEPT !.pc = "json", !.body = Delivered,
                                           !.response = result]]
            /\ UNCHANGED <<toasts, loadingVars, resultsContainer, fetchLog, lastCompleted>>
    /\ UNCHANGED <<prefVars, formVars, previewVars, weatherVars>>

ImageJsonSettled(r, body) ==
    /\ Awaiting(r, "image", "json")
    /\ SuggestionBody(r, ImageErrorToast, body)
    /\ UNCHANGED <<prefVars, formVars, previewVars, weatherVars>>

\* ----------------------------------------------------------- weather modal
EmptyHTML == [kind |-> "empty", details |-> Absent, insight |-> Absent]
LoadingHTML == [kind |-> "loading", details |-> Absent, insight |-> Absent]
ErrorHTML == [kind |-> "alert-danger", details |-> Absent, insight |-> Absent]

WeatherData(location, unit) ==
    [location |-> location, temperature |-> 20, unit |-> unit, condition |-> "Sunny",
     humidity |-> "40%", wind_speed |-> "10 km/h"]

\* How response.json() settles for the weather endpoint asked about destination.
WeatherBodies(destination) ==
    {[parse |-> "invalid", weather_data |-> Absent, description |-> Absent],
     [parse |-> "null", weather_data |-> Absent, description |-> Absent]}
    \cup {[parse |-> "object", weather_data |-> w, description |-> d] :
            w \in {Absent, Present(WeatherData(destination, "celsius")),
                   Present(WeatherData(destination, "fahrenheit"))},
            d \in {Absent, Present("Pack light")}}

\* Variant: a response is rendered only for the destination asked about last.
displayWeatherMutant(data, destination) ==
    IF requests[Len(requests)].destination # destination
    THEN weatherContent
    ELSE [kind |-> "weather-info",
          details |-> IF IsPresent(data.weather_data)
                      THEN Present([Value(data.weather_data) EXCEPT
                                      !.unit = IF @ = "celsius" THEN "C" ELSE "F"])
                      ELSE Absent,
          insight |-> data.description]

\* The HTML displayWeather builds from an object body.
displayWeather(data, destination) ==
    [kind |-> "weather-info",
     details |-> IF IsPresent(data.weather_data)
                 THEN LET weatherData == Value(data.weather_data)
                      IN  Present([location |-> weatherData.location,
                                   temperature |-> weatherData.temperature,
                                   unit |-> IF weatherData.unit = "celsius" THEN "C" ELSE "F",
                                   condition |-> weatherData.condition,
                                   humidity |-> weatherData.humidity,
                                   wind_speed |-> weatherData.wind_speed])
                 ELSE Absent,
     insight |-> data.description]

\* The names the rendered weather buttons pass to getWeather.
WeatherButtons ==
    IF resultsSectionHidden THEN {}
    ELSE {resultsContainer[i].weatherArg : i \in 1..Len(resultsContainer)}

\* getWeather(destination), while fewer than cap handlers have been started.
getWeatherWithin(destination, cap) ==
    /\ destination \in WeatherButtons
    /\ Len(requests) < cap
    /\ weatherContent' = LoadingHTML
    /\ weatherModalShown' = TRUE
    /\ fetchLog' = fetch(fetchLog, WeatherURL)
    /\ requests' = Append(requests,
           NewRequest("weather", destination, [destination |-> destination]))
    /\ UNCHANGED <<prefVars, toasts, formVars, previewVars, loadingVars,
                   resultsContainer, lastCompleted>>

getWeather(destination) == getWeatherWithin(destination, MaxReq)

\* The catch block of getWeather.
\* Variant: the catch block leaves the content of the modal alone.
WeatherCatchMutant(r, response) ==
    /\ weatherContent' = weatherContent
    /\ Finish(r, response, "failure", FALSE, NoBody, 0)

WeatherCatch(r, response) ==
    /\ weatherContent' = ErrorHTML
    /\ Finish(r, response, "failure", ErrorHTML # weatherContent, NoBody, 0)

WeatherFetchSettled(r, result) ==
    /\ Awaiting(r, "weather", "fetch")
    /\ IF result = "rejected" \/ ~ok(result)
       THEN WeatherCatch(r, result)
       ELSE /\ requests' = [requests EXCEPT ![r] =
                                [@ EXCEPT !.pc = "json", !.body = Delivered,
                                           !.response = result]]
            /\ UNCHANGED <<weatherContent, fetchLog, lastCompleted>>
    /\ UNCHANGED <<prefVars, toasts, formVars, previewVars, loadingVars,
                   resultsContainer, weatherModalShown>>

WeatherJsonSettled(r, body) ==
    /\ Awaiting(r, "weather", "json")
    /\ IF body.parse # "object"
       THEN WeatherCatch(r, requests[r].response)
       ELSE /\ weatherContent' = displayWeather(body, requests[r].destination)
            /\ Finish(r, requests[r].response, "success",
                      displayWeather(body, requests[r].destination) # weatherContent,
                      body, 0)
    /\ UNCHANGED <<prefVars, toasts, formVars, previewVars, loadingVars,
                   resultsContainer, weatherModalShown>>

\* The user dismisses the modal.
CloseModal ==
    /\ weatherModalShown
    /\ weatherModalShown' = FALSE
    /\ UNCHANGED <<prefVars, toasts, formVars, previewVars, loadingVars,
                   resultsContainer, weatherContent, requestVars>>

\* ----------------------------------------------------------------- initial
Init ==
    /\ preferenceCheckboxes = {}
    /\ imagePreferenceCheckboxes = {}
    /\ toasts = <<>>
    /\ locationInput = <<>>
    /\ files = NoFile
    /\ readers = <<>>
    /\ previewSrc = NoFile
    /\ imagePreviewHidden = TRUE
    /\ loadingSpinnerHidden = TRUE
    /\ resultsSectionHidden = TRUE
    /\ resultsContainer = <<>>
    /\ weatherModalShown = FALSE
    /\ weatherContent = EmptyHTML
    /\ requests = <<>>
    /\ fetchLog = <<>>
    /\ lastCompleted = 0

NextPrefs ==
    \/ \E b \in Boxes : TogglePreference(b)
    \/ \E b \in Boxes : ToggleImagePreference(b)
    \/ ToastExpire

SpecPrefs == Init /\ [][NextPrefs]_vars

NextImageForm ==
    \/ \E b \in Boxes : ToggleImagePreference(b)
    \/ \E f \in Files \cup {NoFile} : SelectFile(f)
    \/ \E i \in 1..MaxReads : ReaderLoad(i)
    \/ SubmitImage
    \/ \E r \in 1..MaxReq, result \in FetchResults : ImageFetchSettled(r, result)
    \/ \E r \in 1..MaxReq, body \in SuggestionBodies : ImageJsonSettled(r, body)
    \/ ToastExpire

SpecImageForm == Init /\ [][NextImageForm]_vars

Next ==
    \/ \E v \in Locations : TypeLocation(v)
    \/ \E f \in Files \cup {NoFile} : SelectFile(f)
    \/ \E i \in 1..MaxReads : ReaderLoad(i)
    \/ SubmitLocation
    \/ SubmitImage
    \/ \E r \in 1..MaxReq, result \in FetchResults : LocationFetchSettled(r, result)
    \/ \E r \in 1..MaxReq, body \in SuggestionBodies : LocationJsonSettled(r, body)
    \/ \E r \in 1..MaxReq, result \in FetchResults : ImageFetchSettled(r, result)
    \/ \E r \in 1..MaxReq, body \in SuggestionBodies : ImageJsonSettled(r, body)
    \/ \E d \in WeatherButtons : getWeather(d)
    \/ \E r \in 1..MaxReq, result \in FetchResults : WeatherFetchSettled(r, result)
    \/ \E r \in 1..Len(requests) :
            \E body \in WeatherBodies(requests[r].destination) : WeatherJsonSettled(r, body)
    \/ CloseModal
    \/ ToastExpire

Spec == Init /\ [][Next]_vars

\* The location form and the weather modal, with room for two calls of getWeather.
NextWeather ==
    \/ \E v \in Locations : TypeLocation(v)
    \/ SubmitLocation
    \/ \E r \in 1..MaxCalls, result \in FetchResults : LocationFetchSettled(r, result)
    \/ \E r \in 1..MaxCalls, body \in SuggestionBodies : LocationJsonSettled(r, body)
    \/ \E d \in WeatherButtons : getWeatherWithin(d, MaxCalls)
    \/ \E r \in 1..MaxCalls, result \in FetchResults : WeatherFetchSettled(r, result)
    \/ \E r \in 1..Len(requests) :
            \E body \in WeatherBodies(requests[r].destination) : WeatherJsonSettled(r, body)
    \/ CloseModal
    \/ ToastExpire

SpecWeather == Init /\ [][NextWeather]_vars

\* The two forms, with every promise of fetch and of response.json() settling
\* in the end.
NextForms ==
    \/ \E v \in Locations : TypeLocation(v)
    \/ \E f \in Files \cup {NoFile} : SelectFile(f)
    \/ \E i \in 1..MaxReads : ReaderLoad(i)
    \/ SubmitLocation
    \/ SubmitImage
    \/ \E r \in 1..MaxReq, result \in FetchResults : LocationFetchSettled(r, result)
    \/ \E r \in 1..MaxReq, body \in SuggestionBodies : LocationJsonSettled(r, body)
    \/ \E r \in 1..MaxReq, result \in FetchResults : ImageFetchSettled(r, result)
    \/ \E r \in 1..MaxReq, body \in SuggestionBodies : ImageJsonSettled(r, body)
    \/ ToastExpire

PromisesSettle ==
    \A r \in 1..MaxReq :
        /\ WF_vars(\E result \in FetchResults : LocationFetchSettled(r, result))
        /\ WF_vars(\E body \in SuggestionBodies : LocationJsonSettled(r, body))
        /\ WF_vars(\E result \in FetchResults : ImageFetchSettled(r, result))
        /\ WF_vars(\E body \in SuggestionBodies : ImageJsonSettled(r, body))

SpecFormsFair == Init /\ [][NextForms]_vars /\ PromisesSettle

\* ------------------------------------------------------------------ claims
LastToast == IF toasts = <<>> THEN Toast("", "") ELSE toasts[Len(toasts)]

Whitespace(s) == \A i \in 1..Len(s) : s[i] = " "

\* C1: in each preference group at most 3 boxes are ever checked; checking a 4th
\* box leaves the 3 checked boxes as they were, the new box unchecked, and adds the
\* warning toast.
C1_AtMostThreeChecked ==
    /\ [](/\ Cardinality(preferenceCheckboxes) <= 3
          /\ Cardinality(imagePreferenceCheckboxes) <= 3)
    /\ [][\A b \in Boxes :
            /\ (/\ Cardinality(preferenceCheckboxes) = 3
                /\ b \notin preferenceCheckboxes
                /\ TogglePreference(b))
               => (/\ preferenceCheckboxes' = preferenceCheckboxes
                   /\ toasts' = Append(toasts, MaxPrefsToast))
            /\ (/\ Cardinality(imagePreferenceCheckboxes) = 3
                /\ b \notin imagePreferenceCheckboxes
                /\ ToggleImagePreference(b))
               => (/\ imagePreferenceCheckboxes' = imagePreferenceCheckboxes
                   /\ toasts' = Append(toasts, MaxPrefsToast))]_vars

C1_FourthRejected ==
    /\ Cardinality(preferenceCheckboxes) = 3
    /\ Cardinality(imagePreferenceCheckboxes) = 3
    /\ Len(toasts) = 1
    /\ LastToast = MaxPrefsToast

\* C2: a submit of the location form while the input is empty or all whitespace
\* adds the warning toast, leaves the spinner and the results section as they
\* were and makes no call of fetch.
C2_BlankLocationNoRequest ==
    [][(Whitespace(locationInput) /\ SubmitLocation)
        => (/\ toasts' = Append(toasts, EnterLocationToast)
            /\ UNCHANGED <<loadingVars, requests, fetchLog>>)]_vars

C2_BlankRejected ==
    /\ locationInput = <<" ", " ">>
    /\ LastToast = EnterLocationToast
    /\ ~resultsSectionHidden
    /\ resultsContainer # <<>>
    /\ Len(fetchLog) = 1

\* C3: a submit of the image form while no file is selected adds the warning
\* toast, leaves the spinner and the results section as they were and makes no
\* call of fetch, whatever image preferences are checked.
C3_NoFileNoRequest ==
    [][(files = NoFile /\ SubmitImage)
        => (/\ toasts' = Append(toasts, SelectImageToast)
            /\ UNCHANGED <<loadingVars, requests, fetchLog>>)]_vars

C3_NoFileRejected ==
    /\ files = NoFile
    /\ Cardinality(imagePreferenceCheckboxes) = 3
    /\ LastToast = SelectImageToast
    /\ ~resultsSectionHidden
    /\ resultsContainer # <<>>
    /\ Len(fetchLog) = 1

Suggestion(r) == requests[r].kind \in {"location", "image"}

Done(r) == requests[r].pc = "done"

Names(destinations) == [i \in 1..Len(destinations) |-> destinations[i].name]

Titles(cards) == [i \in 1..Len(cards) |-> cards[i].title]

Lists(cards) == [i \in 1..Len(cards) |-> cards[i].attractionsList]

ObjectBody(l) == [parse |-> "object", destinations |-> Present(l)]

FailedResults == {"rejected", "status-4xx", "status-5xx"}

\* C4: when the handler of a location or image request ends in success on a body
\* with the destinations l, the results container holds one card per element of
\* l, in the order of l, and nothing else, and the results section is visible.
C4_OneCardPerDestination ==
    [][\A r \in 1..Len(requests) : \A l \in DestinationLists :
        (/\ \/ LocationJsonSettled(r, ObjectBody(l))
            \/ ImageJsonSettled(r, ObjectBody(l))
         /\ requests'[r].outcome = "success")
        => (/\ Len(resultsContainer') = Len(l)
            /\ Titles(resultsContainer') = Names(l)
            /\ Lists(resultsContainer') = [i \in 1..Len(l) |-> Value(l[i].attractions)]
            /\ ~resultsSectionHidden')]_vars

C4_SecondRenderReplacesFirst ==
    /\ Len(requests) = 2
    /\ \A r \in 1..2 : Suggestion(r) /\ requests[r].outcome = "success"
    /\ lastCompleted = 2
    /\ Names(Value(requests[1].data.destinations)) = <<"Kyoto">>
    /\ Names(Value(requests[2].data.destinations)) = <<"Rome", "Kyoto">>
    /\ Titles(resultsContainer) = <<"Rome", "Kyoto">>
    /\ ~resultsSectionHidden

\* C5: getWeather never closes the weather modal and never adds a toast, and when
\* its request fails (fetch rejects, the status is not 2xx, the body is not JSON)
\* the content of the modal becomes the inline error block.
C5_WeatherFailureInline ==
    [][\A r \in 1..Len(requests) :
        /\ (\/ \E result \in FailedResults : WeatherFetchSettled(r, result)
            \/ WeatherJsonSettled(r, [parse |-> "invalid", weather_data |-> Absent,
                                      description |-> Absent]))
           => (/\ weatherContent' = ErrorHTML
               /\ requests'[r].outcome = "failure")
        /\ (\/ \E d \in WeatherButtons : getWeather(d)
            \/ \E result \in FetchResults : WeatherFetchSettled(r, result)
            \/ \E body \in WeatherBodies(requests[r].destination) :
                    WeatherJsonSettled(r, body))
           => (/\ weatherModalShown => weatherModalShown'
               /\ toasts' = toasts)]_vars

C5_ErrorShownInOpenModal ==
    \E r \in 1..Len(requests) :
        /\ requests[r].kind = "weather"
        /\ requests[r].outcome = "failure"
        /\ requests[r].response = "status-5xx"
        /\ weatherModalShown
        /\ weatherContent = ErrorHTML
        /\ toasts = <<>>

\* C6: when fetch of a location or image request rejects or answers with a 4xx or
\* 5xx status, the handler ends there with the spinner hidden and exactly one
\* danger toast added, the same for the three kinds of failure.
C6_TransportFailureOneToast ==
    [][\A r \in 1..Len(requests) : \A result \in FailedResults :
        /\ LocationFetchSettled(r, result)
           => (/\ loadingSpinnerHidden'
               /\ toasts' = Append(toasts, SuggestionsErrorToast)
               /\ requests'[r].pc = "done"
               /\ requests'[r].toasted = 1)
        /\ ImageFetchSettled(r, result)
           => (/\ loadingSpinnerHidden'
               /\ toasts' = Append(toasts, ImageErrorToast)
               /\ requests'[r].pc = "done"
               /\ requests'[r].toasted = 1)]_vars

C6_BothFormsFailed ==
    /\ Len(requests) = 2
    /\ requests[1].kind = "location" /\ requests[1].response = "status-4xx"
    /\ requests[2].kind = "image" /\ requests[2].response = "rejected"
    /\ \A r \in 1..2 : Done(r) /\ requests[r].toasted = 1
    /\ loadingSpinnerHidden
    /\ LastToast = ImageErrorToast

URLOf(kind) ==
    IF kind = "location" THEN LocationURL
    ELSE IF kind = "image" THEN ImageURL ELSE WeatherURL

\* C7: the calls of fetch made are exactly one per accepted submission, in the
\* order of the submissions and to the endpoint of each, whether or not the
\* requests failed.
C7_OneRequestPerSubmission ==
    /\ Len(fetchLog) = Len(requests)
    /\ \A r \in 1..Len(requests) : fetchLog[r] = URLOf(requests[r].kind)

C7_FailuresNotRetried ==
    /\ Len(requests) = 2
    /\ requests[1].kind = "location" /\ requests[1].outcome = "success"
    /\ requests[2].kind = "weather" /\ requests[2].outcome = "failure"
    /\ Len(fetchLog) = 2

\* C8: whenever the handler that ended most recently is a location or image
\* handler that ended in success, the cards shown are those of its response,
\* whatever the order of submission.
C8_LastResponseWins ==
    (/\ lastCompleted # 0
     /\ Suggestion(lastCompleted)
     /\ requests[lastCompleted].outcome = "success")
    => Titles(resultsContainer)
            = Names(Value(requests[lastCompleted].data.destinations))

C8_EarlierSubmissionShown ==
    /\ Len(requests) = 2
    /\ requests[1].kind = "location" /\ requests[2].kind = "image"
    /\ \A r \in 1..2 : requests[r].outcome = "success"
    /\ lastCompleted = 1
    /\ Names(Value(requests[1].data.destinations)) = <<"Kyoto">>
    /\ Names(Value(requests[2].data.destinations)) = <<"Rome">>
    /\ Titles(resultsContainer) = <<"Kyoto">>

\* C9: no location or image handler both changes the cards of the results
\* container and shows its failure toast.
C9_SuccessOrFailureNotBoth ==
    \A r \in 1..Len(requests) :
        Suggestion(r) => ~(requests[r].changed /\ requests[r].toasted > 0)

EndsInFailure(r) ==
    /\ Suggestion(r)
    /\ ~Done(r)
    /\ Len(requests') = Len(requests)
    /\ requests'[r].pc = "done"
    /\ requests'[r].outcome = "failure"

\* C10 as stated: after a failed location or image request the spinner is hidden
\* and the results section is as visible as it was just before the submission.
C10_VisibilityRestored ==
    [][\A r \in 1..Len(requests) :
        EndsInFailure(r)
        => (/\ loadingSpinnerHidden'
            /\ resultsSectionHidden' = requests[r].hiddenBefore)]_vars

\* C10 amended: the failure of a location or image request hides the spinner and
\* leaves the results section as visible as it was when the failure was handled;
\* the visibility from before the submission is not restored.
C10_VisibilityLeftAsIs ==
    [][\A r \in 1..Len(requests) :
        EndsInFailure(r)
        => (/\ loadingSpinnerHidden'
            /\ resultsSectionHidden' = resultsSectionHidden)]_vars

C10_ResultsStayHidden ==
    \E r \in 1..Len(requests) :
        /\ Suggestion(r)
        /\ requests[r].outcome = "failure"
        /\ requests[r].response \in FailedResults
        /\ ~requests[r].hiddenBefore
        /\ lastCompleted = r
        /\ loadingSpinnerHidden
        /\ resultsSectionHidden
        /\ resultsContainer # <<>>

Weather(r) == requests[r].kind = "weather"

\* C11: whenever a getWeather handler ends, the modal takes the weather or the
\* error block of that handler, also when getWeather was called for another
\* destination after it; nothing orders overlapping calls.
C11_EveryWeatherResponseRendered ==
    [][\A r \in 1..Len(requests) :
        (/\ Weather(r)
         /\ ~Done(r)
         /\ Len(requests') = Len(requests)
         /\ requests'[r].pc = "done")
        => (/\ requests'[r].outcome = "failure" => weatherContent' = ErrorHTML
            /\ requests'[r].outcome = "success"
                  => /\ weatherContent'.kind = "weather-info"
                     /\ weatherContent'.insight = requests'[r].data.description
                     /\ IsPresent(weatherContent'.details)
                           <=> IsPresent(requests'[r].data.weather_data)
                     /\ IsPresent(weatherContent'.details)
                           => Value(weatherContent'.details).location
                                  = requests[r].destination)]_vars

\* getWeather("Kyoto"), then getWeather("Rome"); the answer about Rome was rendered
\* first, the answer about Kyoto after it.
C11_EarlierCallShown ==
    /\ Len(requests) = 3
    /\ Weather(2) /\ requests[2].destination = "Kyoto"
    /\ Weather(3) /\ requests[3].destination = "Rome"
    /\ requests[2].outcome = "success" /\ requests[3].outcome = "success"
    /\ IsPresent(requests[3].data.weather_data)
    /\ lastCompleted = 2
    /\ IsPresent(weatherContent.details)
    /\ Value(weatherContent.details).location = "Kyoto"

\* The same while the request about Rome is still pending.
C11_EarlierCallShownWhilePending ==
    /\ Len(requests) = 3
    /\ Weather(2) /\ requests[2].destination = "Kyoto"
    /\ Weather(3) /\ requests[3].destination = "Rome"
    /\ requests[2].outcome = "success" /\ requests[3].pc = "fetch"
    /\ IsPresent(weatherContent.details)
    /\ Value(weatherContent.details).location = "Kyoto"

InFlight(r) == Suggestion(r) /\ ~Done(r)

LoadingShown == ~loadingSpinnerHidden /\ resultsSectionHidden

\* C12 as stated: while a location or image request is in flight the spinner is
\* visible and the results section hidden, overlapping submissions included.
C12_InFlightShowsLoading ==
    (\E r \in 1..Len(requests) : InFlight(r)) => LoadingShown

\* C12 amended: an accepted location or image submission shows the spinner and
\* hides the results section, and while a request is in flight they stay so
\* until a location or image handler ends, that request's or an overlapping one's.
C12_LoadingUntilAHandlerEnds ==
    [][/\ (/\ Len(requests') = Len(requests) + 1
           /\ requests'[Len(requests')].kind \in {"location", "image"})
          => (~loadingSpinnerHidden' /\ resultsSectionHidden')
       /\ (/\ \E r \in 1..Len(requests) : InFlight(r)
           /\ LoadingShown
           /\ ~(~loadingSpinnerHidden' /\ resultsSectionHidden'))
          => \E r \in 1..Len(requests) :
                /\ InFlight(r)
                /\ Len(requests') = Len(requests)
                /\ requests'[r].pc = "done"]_vars

\* The first of two overlapping requests has succeeded; the second is in flight
\* behind a hidden spinner and visible results.
C12_InFlightBehindResults ==
    /\ Len(requests) = 2
    /\ requests[1].kind = "location" /\ requests[1].outcome = "success"
    /\ requests[1].hiddenBefore
    /\ requests[2].kind = "image" /\ requests[2].pc = "fetch"
    /\ requests[2].hiddenBefore
    /\ loadingSpinnerHidden
    /\ ~resultsSectionHidden

\* C13: the step in which a location or image handler ends with its failure
\* toast leaves the cards of the results container as they were.
C13_FailureKeepsCards ==
    [][\A r \in 1..Len(requests) :
        (EndsInFailure(r) /\ requests'[r].toasted > 0)
        => resultsContainer' = resultsContainer]_vars

\* C14: once no FileReader is still reading, the preview is hidden if no file
\* is selected and otherwise shows the selected file, the one a submit would send.
C14_PreviewIsSelectedFile ==
    readers = <<>>
    => IF files = NoFile
       THEN imagePreviewHidden
       ELSE ~imagePreviewHidden /\ previewSrc = files

====
